---- MODULE Spec2Model ----
(***************************************************************************)
(* The family sabzi recommender: app.py (Flask, SQLite-backed registry)    *)
(* and sabzi_agent.py (console menu, JSON-file-backed registry).           *)
(*                                                                         *)
(* A Python str is modelled as the sequence of its Unicode code points, so *)
(* that lower(), the two re.sub calls, strip(), == and sorted() are what   *)
(* they are in the code.  The character universe is ASCII together with    *)
(* the Devanagari block U+0900..U+097F (2304..2431).                       *)
(***************************************************************************)
EXTENDS Integers, Sequences, FiniteSets, TLC

VARIABLES
    members,                        \* app.py: FamilyMember rows of current_user, in id order
    user_preferences,               \* sabzi_agent.py: user_preferences["family_members"]
    request,                        \* the request being (or last) handled
    response,                       \* what the handler returned for it
    pc,                             \* position inside the handler in progress
    trace,                          \* the steps the handler in progress has executed
    common_fav_veg_set,             \* api_recommend_sabzi locals
    current_season,
    available_and_preferred_veg,
    possible_dishes,
    name_in,                        \* normalize_ingredient_name: argument, f(x), f(f(x))
    name_once,
    name_twice,
    dish_in,                        \* one pass of the dish loop: dish, preferred, allow-list
    preferred_in,
    common_in,
    appended,
    worker,                         \* concurrent /api/set_preferences requests
    catalog_in,                     \* get_seasonal_vegetables: catalog, season, result
    season_in,
    seasonal_names,
    agent_response,                 \* what recommend_sabzi_for_family returned
    user,                           \* app.py: the User row of the account
    now,                            \* datetime.utcnow(), in minutes
    mail,                           \* the code carried by the last OTP email
    otp_request,                    \* the password-reset request last handled
    otp_response                    \* the status it was answered with

vars == <<members, user_preferences, request, response, pc, trace,
          common_fav_veg_set, current_season, available_and_preferred_veg,
          possible_dishes, name_in, name_once, name_twice,
          dish_in, preferred_in, common_in, appended, worker,
          catalog_in, season_in, seasonal_names, agent_response,
          user, now, mail, otp_request, otp_response>>

appVars == <<members, request, response, pc, trace, common_fav_veg_set,
             current_season, available_and_preferred_veg, possible_dishes>>
normVars == <<name_in, name_once, name_twice>>
matchVars == <<dish_in, preferred_in, common_in, appended>>
seasonVars == <<catalog_in, season_in, seasonal_names>>
accountVars == <<user, now, mail, otp_request, otp_response>>

(***************************************************************************)
(* Strings used by the model, as code points.                              *)
(***************************************************************************)
\* Mom: "Mom"
Mom ==
    <<77, 111, 109>>
\* mom: "mom"
mom ==
    <<109, 111, 109>>
\* Dad: "Dad"
Dad ==
    <<68, 97, 100>>
\* Potato: "Potato (\u0906\u0932\u0942)"
Potato ==
    <<80, 111, 116, 97, 116, 111, 32, 40, 2310, 2354, 2370, 41>>
\* Spinach: "Spinach (\u092a\u093e\u0932\u0915)"
Spinach ==
    <<83, 112, 105, 110, 97, 99, 104, 32, 40, 2346, 2366, 2354, 2325, 41>>
\* Foo: "Foo"
Foo ==
    <<70, 111, 111>>
\* Onion: "Onion (\u092a\u094d\u092f\u093e\u091c)"
Onion ==
    <<79, 110, 105, 111, 110, 32, 40, 2346, 2381, 2351, 2366, 2332, 41>>
\* Tomato: "Tomato (\u091f\u092e\u093e\u091f\u0930)"
Tomato ==
    <<84, 111, 109, 97, 116, 111, 32, 40, 2335, 2350, 2366, 2335, 2352, 41>>
\* Ginger: "Ginger (\u0905\u0926\u0930\u0915)"
Ginger ==
    <<71, 105, 110, 103, 101, 114, 32, 40, 2309, 2342, 2352, 2325, 41>>
\* Garlic: "Garlic (\u0932\u0939\u0938\u0941\u0928)"
Garlic ==
    <<71, 97, 114, 108, 105, 99, 32, 40, 2354, 2361, 2360, 2369, 2344, 41>>
\* GreenChili: "Green Chili (\u0939\u0930\u0940 \u092e\u093f\u0930\u094d\u091a)"
GreenChili ==
    <<71, 114, 101, 101, 110, 32, 67, 104, 105, 108, 105, 32, 40, 2361, 2352, 2368, 32, 2350, 2367, 2352, 2381, 2330, 41>>
\* CorianderLeaves: "Coriander Leaves (\u0939\u0930\u093e \u0927\u0928\u093f\u092f\u093e)"
CorianderLeaves ==
    <<67, 111, 114, 105, 97, 110, 100, 101, 114, 32, 76, 101, 97, 118, 101, 115, 32, 40, 2361, 2352, 2366, 32, 2343, 2344, 2367, 2351, 2366, 41>>
\* Mint: "Mint (\u092a\u0941\u0926\u0940\u0928\u093e)"
Mint ==
    <<77, 105, 110, 116, 32, 40, 2346, 2369, 2342, 2368, 2344, 2366, 41>>
\* CurryLeaves: "Curry Leaves (\u0915\u0930\u0940 \u092a\u0924\u094d\u0924\u093e)"
CurryLeaves ==
    <<67, 117, 114, 114, 121, 32, 76, 101, 97, 118, 101, 115, 32, 40, 2325, 2352, 2368, 32, 2346, 2340, 2381, 2340, 2366, 41>>
\* Capsicum: "Capsicum (\u0936\u093f\u092e\u0932\u093e \u092e\u093f\u0930\u094d\u091a)"
Capsicum ==
    <<67, 97, 112, 115, 105, 99, 117, 109, 32, 40, 2358, 2367, 2350, 2354, 2366, 32, 2350, 2367, 2352, 2381, 2330, 41>>
\* SentencePrefix: "Today, you can make "
SentencePrefix ==
    <<84, 111, 100, 97, 121, 44, 32, 121, 111, 117, 32, 99, 97, 110, 32, 109, 97, 107, 101, 32>>
\* SabziSuffix: " Sabzi"
SabziSuffix ==
    <<32, 83, 97, 98, 122, 105>>
\* Aloo: "Aloo"
Aloo ==
    <<65, 108, 111, 111>>
\* AlooPalak: "Aloo Palak"
AlooPalak ==
    <<65, 108, 111, 111, 32, 80, 97, 108, 97, 107>>
\* PalakPaneer: "Palak Paneer"
PalakPaneer ==
    <<80, 97, 108, 97, 107, 32, 80, 97, 110, 101, 101, 114>>
\* Tadka: "Tadka"
Tadka ==
    <<84, 97, 100, 107, 97>>
\* Plain: "Plain"
Plain ==
    <<80, 108, 97, 105, 110>>
\* IngPotato: "Potato"
IngPotato ==
    <<80, 111, 116, 97, 116, 111>>
\* IngOnion: "Onion"
IngOnion ==
    <<79, 110, 105, 111, 110>>
\* IngPotatoLower: "potato (\u0906\u0932\u0942)"
IngPotatoLower ==
    <<112, 111, 116, 97, 116, 111, 32, 40, 2310, 2354, 2370, 41>>
\* IngSpinachUpper: "SPINACH"
IngSpinachUpper ==
    <<83, 80, 73, 78, 65, 67, 72>>
\* IngSpinach: "Spinach"
IngSpinach ==
    <<83, 112, 105, 110, 97, 99, 104>>
\* IngPaneer: "Paneer"
IngPaneer ==
    <<80, 97, 110, 101, 101, 114>>
\* IngTomato: "Tomato"
IngTomato ==
    <<84, 111, 109, 97, 116, 111>>
\* One: "1"
One ==
    <<49>>
\* Two: "2"
Two ==
    <<50>>
\* Nine: "9"
Nine ==
    <<57>>

(***************************************************************************)
(* Python string primitives.                                               *)
(***************************************************************************)
\* str.lower() on one character of the universe (Devanagari has no case)
LowerChar(c) == IF c \in 65..90 THEN c + 32 ELSE c

\* a variant of lower() that leaves the string as it is
lower_Identity(s) == s

\* line 92: name.lower()
lower(s) == [i \in 1..Len(s) |-> LowerChar(s[i])]

\* \w of a str pattern, restricted to ASCII: [A-Za-z0-9_]
IsWordChar(c) == c \in (48..57) \cup (65..90) \cup (97..122) \cup {95}

\* the class the second pattern keeps: \w or ऀ-ॿ
IsKeptChar(c) == IsWordChar(c) \/ c \in 2304..2431

\* what str.strip() removes, within the universe
IsSpaceChar(c) == c \in (9..13) \cup (28..32)

\* index of the first ")" after position i, 0 when there is none
FirstClose(s, i) ==
    IF \E j \in (i+1)..Len(s) : s[j] = 41
    THEN CHOOSE j \in (i+1)..Len(s) :
            /\ s[j] = 41
            /\ \A k \in (i+1)..(j-1) : s[k] # 41
    ELSE 0

\* line 94: re.sub(r'\([^)]*\)', '', name), scanning from position i.
\* A "(" with a ")" somewhere after it starts a match that ends at the first
\* such ")" ([^)]* also runs over "("); the scan resumes behind the match.
RECURSIVE RemoveBracketsFrom(_, _)
RemoveBracketsFrom(s, i) ==
    IF i > Len(s) THEN <<>>
    ELSE IF s[i] = 40 /\ FirstClose(s, i) # 0
         THEN RemoveBracketsFrom(s, FirstClose(s, i) + 1)
         ELSE <<s[i]>> \o RemoveBracketsFrom(s, i + 1)

RemoveBrackets(s) == RemoveBracketsFrom(s, 1)

\* line 96: re.sub(r'[^\wऀ-ॿ]+', ' ', name), scanning from position i:
\* every maximal run of characters outside the class becomes one space
RECURSIVE CollapseSpecialFrom(_, _)
CollapseSpecialFrom(s, i) ==
    IF i > Len(s) THEN <<>>
    ELSE IF IsKeptChar(s[i])
         THEN <<s[i]>> \o CollapseSpecialFrom(s, i + 1)
         ELSE LET rest == {j \in (i+1)..Len(s) : IsKeptChar(s[j])}
                  nxt  == IF rest = {} THEN Len(s) + 1
                          ELSE CHOOSE j \in rest : \A k \in rest : j <= k
              IN  <<32>> \o CollapseSpecialFrom(s, nxt)

CollapseSpecial(s) == CollapseSpecialFrom(s, 1)

\* line 97: name.strip()
strip(s) ==
    LET keep == {i \in 1..Len(s) : ~IsSpaceChar(s[i])}
    IN  IF keep = {} THEN <<>>
        ELSE LET lo == CHOOSE i \in keep : \A k \in keep : i <= k
                 hi == CHOOSE i \in keep : \A k \in keep : k <= i
             IN  SubSeq(s, lo, hi)

\* lines 89-98
normalize_ingredient_name(name) ==
    strip(CollapseSpecial(RemoveBrackets(lower(name))))

\* s < t as Python compares str: by code point, a proper prefix first
RECURSIVE StrLess(_, _)
StrLess(s, t) ==
    IF t = <<>> THEN FALSE
    ELSE IF s = <<>> THEN TRUE
    ELSE IF s[1] # t[1] THEN s[1] < t[1]
    ELSE StrLess(Tail(s), Tail(t))

\* sorted(list(set(xs))): the elements of S in ascending order
RECURSIVE SortedSeq(_)
SortedSeq(S) ==
    IF S = {} THEN <<>>
    ELSE LET m == CHOOSE x \in S : \A y \in S \ {x} : StrLess(x, y)
         IN  <<m>> \o SortedSeq(S \ {m})

Range(f) == {f[i] : i \in DOMAIN f}

(***************************************************************************)
(* normalize_ingredient_name applied once and twice to an arbitrary name.  *)
(***************************************************************************)
MaxNameLen == 4

\* "A", "a", "(", ")", " ", "-", and the Devanagari letter PA
NameChars == {65, 97, 40, 41, 32, 45, 2346}

NameInputs == UNION {[1..n -> NameChars] : n \in 0..MaxNameLen}

SwapCase(c) ==
    IF c \in 65..90 THEN c + 32 ELSE IF c \in 97..122 THEN c - 32 ELSE c

\* the strings that differ from s only in letter case
CaseVariants(s) ==
    {[i \in 1..Len(s) |-> IF i \in F THEN SwapCase(s[i]) ELSE s[i]] :
        F \in SUBSET (1..Len(s))}

(***************************************************************************)
(* Reference data (vegetables.json, dishes.json) and request inputs.       *)
(***************************************************************************)
\* app.py line 64: vegetables_data
vegetables_data ==
    << [name |-> Potato,  seasonal |-> {"year-round"},       dishes |-> <<Aloo>>],
       [name |-> Spinach, seasonal |-> {"winter", "autumn"}, dishes |-> <<>>] >>

\* app.py line 65: dishes_data
dishes_data ==
    << [name |-> Aloo,        ingredients |-> {IngPotato, IngOnion}],
       [name |-> AlooPalak,   ingredients |-> {IngPotatoLower, IngSpinachUpper, Garlic}],
       [name |-> Aloo,        ingredients |-> {Potato}],
       [name |-> PalakPaneer, ingredients |-> {IngSpinach, IngPaneer}],
       [name |-> Tadka,       ingredients |-> {IngOnion, IngTomato}],
       [name |-> Plain,       ingredients |-> {}] >>

\* app.py lines 187-191
common_sabzi_ingredients ==
    {Onion, Tomato, Ginger, Garlic, GreenChili, CorianderLeaves, Mint,
     CurryLeaves, Capsicum}

\* member names a request may carry ("" is a missing name)
MemberNames == {Mom, mom, Dad}

\* favorite_vegetables a request may carry
FavoriteInputs ==
    { <<>>, <<Potato>>, <<Spinach>>, <<Potato, Spinach>>,
      <<Potato, Foo>>, <<Foo, Spinach>> }

MaxPresent == 2

\* present_members a request may carry
PresentInputs == UNION {[1..n -> MemberNames] : n \in 0..MaxPresent}

NoRequest ==
    [op |-> "none", member_name |-> <<>>, favorite_vegetables |-> <<>>,
     present_members |-> <<>>]

NoResponse == [status |-> "none", message |-> "none", detail |-> <<>>]

Reply(status, message, detail) ==
    [status |-> status, message |-> message, detail |-> detail]

(***************************************************************************)
(* Helpers shared by both programs.                                        *)
(***************************************************************************)
\* app.py lines 69-79, sabzi_agent.py lines 20-30
get_current_season(month) ==
    IF 3 <= month /\ month <= 6 THEN "summer"
    ELSE IF 7 <= month /\ month <= 9 THEN "monsoon"
    ELSE IF 10 <= month /\ month <= 11 THEN "autumn"
    ELSE "winter"

\* the filter without its "year-round" test
get_seasonal_vegetables_NamedSeasonOnly(season, all_vegetables_data) ==
    LET InSeason(veg) == season \in veg.seasonal
        kept == SelectSeq(all_vegetables_data, InSeason)
    IN  [i \in 1..Len(kept) |-> kept[i].name]

\* app.py lines 81-87, sabzi_agent.py lines 32-38
get_seasonal_vegetables(season, all_vegetables_data) ==
    LET InSeason(veg) == "year-round" \in veg.seasonal \/ season \in veg.seasonal
        kept == SelectSeq(all_vegetables_data, InSeason)
    IN  [i \in 1..Len(kept) |-> kept[i].name]

\* [veg["name"] for veg in vegetables_data]
all_valid_veg == [i \in 1..Len(vegetables_data) |-> vegetables_data[i].name]

\* the first index of rows whose name == name (exact, case-sensitive), or 0
FirstIndexByName(rows, name) ==
    LET hits == {i \in 1..Len(rows) : rows[i].name = name}
    IN  IF hits = {} THEN 0 ELSE CHOOSE i \in hits : \A k \in hits : i <= k

(***************************************************************************)
(* app.py: POST /api/set_preferences                                       *)
(***************************************************************************)
\* a variant of the lookup that never finds the member
MemberQuery_AlwaysMissing(rows, member_name) == 0

\* line 135: FamilyMember.query.filter_by(user_id=..., name=member_name).first()
\* The rows of other users never pass the user_id filter; members holds the
\* current user's rows.  SQLite (line 17) compares TEXT with = byte for byte.
MemberQuery(rows, member_name) == FirstIndexByName(rows, member_name)

\* a variant of the validation loop that accepts every name
FirstInvalidVegetable_AcceptAll(favorite_vegetables) == 0

\* lines 130-133: the index of the first entry that is no vegetable name, or 0
FirstInvalidVegetable(favorite_vegetables) ==
    LET bad == {i \in 1..Len(favorite_vegetables) :
                    favorite_vegetables[i] \notin Range(all_valid_veg)}
    IN  IF bad = {} THEN 0 ELSE CHOOSE i \in bad : \A k \in bad : i <= k

\* no api_recommend_sabzi call is in progress: its locals do not exist
NoRecommendFrame ==
    /\ trace = <<>>
    /\ common_fav_veg_set = {}
    /\ current_season = "none"
    /\ available_and_preferred_veg = {}
    /\ possible_dishes = <<>>

\* a new request starts with no api_recommend_sabzi locals
DropRecommendFrame ==
    /\ trace' = <<>>
    /\ common_fav_veg_set' = {}
    /\ current_season' = "none"
    /\ available_and_preferred_veg' = {}
    /\ possible_dishes' = <<>>

\* lines 120-144
api_set_preferences(member_name, favorite_vegetables) ==
    /\ pc = "idle"
    /\ request' = [op |-> "set_preferences", member_name |-> member_name,
                   favorite_vegetables |-> favorite_vegetables,
                   present_members |-> <<>>]
    /\ IF member_name = <<>> \/ favorite_vegetables = <<>>
       THEN /\ response' = Reply("error", "fields_required", <<>>)
            /\ members' = members
       ELSE IF FirstInvalidVegetable(favorite_vegetables) # 0
       THEN /\ response' = Reply("error", "invalid_vegetable",
                   <<favorite_vegetables[FirstInvalidVegetable(favorite_vegetables)]>>)
            /\ members' = members
       ELSE LET i == MemberQuery(members, member_name)
            IN  IF i # 0
                THEN /\ members' = [members EXCEPT
                            ![i].favorite_vegetables = favorite_vegetables]
                     /\ response' = Reply("success", "updated", <<member_name>>)
                ELSE /\ members' = Append(members,
                            [name |-> member_name,
                             favorite_vegetables |-> favorite_vegetables])
                     /\ response' = Reply("success", "added", <<member_name>>)
    /\ DropRecommendFrame
    /\ UNCHANGED <<pc, user_preferences, normVars, matchVars, worker,
                   seasonVars, agent_response, accountVars>>

ApiSetPreferences ==
    \E member_name \in MemberNames \cup {<<>>}, favorite_vegetables \in FavoriteInputs :
        api_set_preferences(member_name, favorite_vegetables)

(***************************************************************************)
(* app.py: POST /api/recommend_sabzi, one action per stage of the handler. *)
(* trace records the stages the request in progress has gone through.      *)
(***************************************************************************)
Return(reply) ==
    /\ response' = reply
    /\ pc' = "idle"

\* a variant that reports each unknown name once
invalid_members_Deduplicated(present_members, all_registered_members) ==
    LET bad(n) == n \notin Range(all_registered_members)
        all == SelectSeq(present_members, bad)
    IN  SelectSeq([i \in 1..Len(all) |->
                      IF \E k \in 1..(i-1) : all[k] = all[i] THEN <<>> ELSE all[i]],
                  LAMBDA n : n # <<>>)

\* line 160: [member for member in present_members if member not in all_registered_members]
invalid_members(present_members, all_registered_members) ==
    LET bad(n) == n \notin Range(all_registered_members)
    IN  SelectSeq(present_members, bad)

\* lines 164-169: one set(favorite_vegetables) per present name, taken from the
\* first row of that name
present_members_fav_veg(present_members, rows) ==
    LET known(n) == FirstIndexByName(rows, n) # 0
        found == SelectSeq(present_members, known)
    IN  [i \in 1..Len(found) |->
            Range(rows[FirstIndexByName(rows, found[i])].favorite_vegetables)]

\* a variant that takes the first present member's favorites only
common_favorites_FirstOnly(fav_sets) == fav_sets[1]

\* lines 174-177
common_favorites(fav_sets) ==
    IF Len(fav_sets) = 1 THEN fav_sets[1]
    ELSE {v \in fav_sets[1] : \A i \in 1..Len(fav_sets) : v \in fav_sets[i]}

\* a variant of the dish test without the check of the remaining ingredients
dish_is_possible_NoRemainingCheck(dish_ingredients, normalized_preferred, normalized_common) ==
    /\ dish_ingredients # {}
    /\ LET normalized_ingredients ==
               {normalize_ingredient_name(x) : x \in dish_ingredients}
           main_ingredients == normalized_ingredients \ normalized_common
       IN  \E ing \in main_ingredients : ing \in normalized_preferred

\* lines 197-204: whether the loop appends a suggestion for this dish
dish_is_possible(dish_ingredients, normalized_preferred, normalized_common) ==
    /\ dish_ingredients # {}
    /\ LET normalized_ingredients ==
               {normalize_ingredient_name(x) : x \in dish_ingredients}
           main_ingredients == normalized_ingredients \ normalized_common
           remaining_ingredients == normalized_ingredients \ normalized_preferred
       IN  /\ \E ing \in main_ingredients : ing \in normalized_preferred
           /\ \A ing \in remaining_ingredients : ing \in normalized_common

\* line 205: f"Today, you can make {dish_name}."
Suggestion(dish_name) == SentencePrefix \o dish_name \o <<46>>

\* line 192
normalized_common ==
    {normalize_ingredient_name(x) : x \in common_sabzi_ingredients}

\* lines 193-205: possible_dishes after the loop over dishes_data
scan_dishes(preferred, dishes) ==
    LET normalized_preferred == {normalize_ingredient_name(x) : x \in preferred}
        ok(dish_info) ==
            dish_is_possible(dish_info.ingredients, normalized_preferred,
                             normalized_common)
        kept == SelectSeq(dishes, ok)
    IN  [i \in 1..Len(kept) |-> Suggestion(kept[i].name)]

\* a variant that keeps the suggestions in catalog order, duplicates included
unique_suggestions_Unsorted(suggestions) == suggestions

\* line 208: sorted(list(set(possible_dishes)))
unique_suggestions(suggestions) == SortedSeq(Range(suggestions))

recommendLocals ==
    <<common_fav_veg_set, current_season, available_and_preferred_veg,
      possible_dishes>>

otherPrograms == <<user_preferences, normVars, matchVars, worker,
                   seasonVars, agent_response, accountVars>>

\* lines 148-150: the request arrives
RecommendBegin ==
    \E present_members \in PresentInputs :
        /\ pc = "idle"
        /\ request' = [op |-> "recommend_sabzi", member_name |-> <<>>,
                       favorite_vegetables |-> <<>>,
                       present_members |-> present_members]
        /\ response' = NoResponse
        /\ DropRecommendFrame
        /\ pc' = "check_present"
        /\ UNCHANGED <<members, otherPrograms>>

\* a variant that does not look at present_members
RecommendCheckPresent_Skipped ==
    /\ pc = "check_present"
    /\ trace' = Append(trace, "present")
    /\ pc' = "check_registry"
    /\ UNCHANGED <<response, members, request, recommendLocals, otherPrograms>>

\* lines 152-153
RecommendCheckPresent ==
    /\ pc = "check_present"
    /\ trace' = Append(trace, "present")
    /\ IF request.present_members = <<>>
       THEN Return(Reply("error", "no_members_specified", <<>>))
       ELSE pc' = "check_registry" /\ UNCHANGED response
    /\ UNCHANGED <<members, request, recommendLocals, otherPrograms>>

\* lines 155-157
RecommendCheckRegistry ==
    /\ pc = "check_registry"
    /\ trace' = Append(trace, "registry")
    /\ IF members = <<>>
       THEN Return(Reply("error", "no_registered_members", <<>>))
       ELSE pc' = "check_names" /\ UNCHANGED response
    /\ UNCHANGED <<members, request, recommendLocals, otherPrograms>>

\* lines 159-162
RecommendCheckNames ==
    /\ pc = "check_names"
    /\ trace' = Append(trace, "names")
    /\ LET all_registered_members == [i \in 1..Len(members) |-> members[i].name]
           invalid == invalid_members(request.present_members, all_registered_members)
       IN  IF invalid # <<>>
           THEN Return(Reply("error", "unknown_members", invalid))
           ELSE pc' = "intersect" /\ UNCHANGED response
    /\ UNCHANGED <<members, request, recommendLocals, otherPrograms>>

\* lines 164-180
RecommendIntersect ==
    /\ pc = "intersect"
    /\ trace' = Append(trace, "intersect")
    /\ LET fav_sets == present_members_fav_veg(request.present_members, members)
       IN  IF fav_sets = <<>>
           THEN /\ Return(Reply("error", "favorites_not_found", <<>>))
                /\ UNCHANGED common_fav_veg_set
           ELSE /\ common_fav_veg_set' = common_favorites(fav_sets)
                /\ IF common_fav_veg_set' = {}
                   THEN Return(Reply("warning", "no_common_favorites", <<>>))
                   ELSE pc' = "season" /\ UNCHANGED response
    /\ UNCHANGED <<members, request, current_season, available_and_preferred_veg,
                   possible_dishes, otherPrograms>>

\* lines 182-184; the month is whatever datetime.now() gives
RecommendSeason ==
    \E month \in 1..12 :
        /\ pc = "season"
        /\ trace' = Append(trace, "season")
        /\ current_season' = get_current_season(month)
        /\ available_and_preferred_veg' =
               common_fav_veg_set \cap
                   Range(get_seasonal_vegetables(current_season', vegetables_data))
        /\ pc' = "scan"
        /\ UNCHANGED <<members, request, response, common_fav_veg_set,
                       possible_dishes, otherPrograms>>

\* lines 186-205
RecommendScan ==
    /\ pc = "scan"
    /\ trace' = Append(trace, "catalog")
    /\ possible_dishes' = scan_dishes(available_and_preferred_veg, dishes_data)
    /\ pc' = "classify"
    /\ UNCHANGED <<members, request, response, common_fav_veg_set, current_season,
                   available_and_preferred_veg, otherPrograms>>

\* lines 207-214
RecommendClassify ==
    /\ pc = "classify"
    /\ trace' = Append(trace, "classify")
    /\ IF possible_dishes # <<>>
       THEN LET unique == unique_suggestions(possible_dishes)
            IN  IF Len(unique) = 1
                THEN Return(Reply("success", "single", unique))
                ELSE Return(Reply("success", "loved_by_everyone", unique))
       ELSE Return(Reply("info", "no_match_found", <<>>))
    /\ UNCHANGED <<members, request, recommendLocals, otherPrograms>>

ApiRecommendSabzi ==
    \/ RecommendBegin
    \/ RecommendCheckPresent
    \/ RecommendCheckRegistry
    \/ RecommendCheckNames
    \/ RecommendIntersect
    \/ RecommendSeason
    \/ RecommendScan
    \/ RecommendClassify

(***************************************************************************)
(* app.py: the preference and recommendation endpoints, one request at a   *)
(* time, starting from an empty table.                                     *)
(***************************************************************************)
AppIdle ==
    /\ members = <<>>
    /\ request = NoRequest
    /\ response = NoResponse
    /\ NoRecommendFrame

AgentIdle == user_preferences = <<>>

NormIdle ==
    /\ name_in = <<>>
    /\ name_once = <<>>
    /\ name_twice = <<>>

MatchIdle ==
    /\ dish_in = {}
    /\ preferred_in = {}
    /\ common_in = {}
    /\ appended = FALSE

WorkerIdle == worker = <<>>

SeasonIdle ==
    /\ catalog_in = <<>>
    /\ season_in = "none"
    /\ seasonal_names = <<>>

NoAgentResponse ==
    [present_members |-> <<>>, season |-> "none", message |-> "none", detail |-> <<>>]

AgentReplyIdle == agent_response = NoAgentResponse

NoOtpRequest == [op |-> "none", email |-> "none", otp |-> <<>>, new_password |-> "none"]

AccountIdle ==
    /\ user = <<>>
    /\ now = 0
    /\ mail = <<>>
    /\ otp_request = NoOtpRequest
    /\ otp_response = "none"

OthersIdle ==
    /\ SeasonIdle
    /\ AgentReplyIdle
    /\ AccountIdle

Init ==
    /\ pc = "idle"
    /\ AppIdle
    /\ AgentIdle
    /\ NormIdle
    /\ MatchIdle
    /\ WorkerIdle
    /\ OthersIdle

Next ==
    \/ ApiSetPreferences
    \/ ApiRecommendSabzi

Spec == Init /\ [][Next]_vars

(***************************************************************************)
(* Properties of POST /api/recommend_sabzi.                                *)
(***************************************************************************)
RecommendReturned ==
    /\ request.op = "recommend_sabzi"
    /\ pc = "idle"

RegisteredNames == {members[i].name : i \in 1..Len(members)}

\* the favorite set of the registered member called n
FavoritesIn(rows, n) ==
    UNION {Range(rows[i].favorite_vegetables) :
              i \in {k \in 1..Len(rows) : rows[k].name = n}}

FavoritesOf(n) == FavoritesIn(members, n)

AllVegetableNames == {vegetables_data[i].name : i \in 1..Len(vegetables_data)}

SharedFavorites(present_members) ==
    {v \in AllVegetableNames :
        \A i \in 1..Len(present_members) : v \in FavoritesOf(present_members[i])}

\* the present names that are not registered, in the order given
RECURSIVE UnknownNames(_)
UnknownNames(present_members) ==
    IF present_members = <<>> THEN <<>>
    ELSE IF Head(present_members) \in RegisteredNames
         THEN UnknownNames(Tail(present_members))
         ELSE <<Head(present_members)>> \o UnknownNames(Tail(present_members))

\* C1: the checks run in the order present-members, registry, names,
\* intersection, and the first one that fails decides the outcome; the
\* seasonal filter and the dish catalog are consulted only after all four
\* passed; a request in progress has no outcome yet and a finished one has
\* exactly one; no error or warning is returned once the scan has begun.
C1_FirstFailingCheckDecides ==
    LET present == request.present_members
        consulted == {"season", "catalog"} \cap Range(trace) # {}
    IN  /\ pc # "idle" => response = NoResponse
        /\ RecommendReturned =>
              /\ response.status \in {"error", "warning", "success", "info"}
              /\ IF present = <<>>
                 THEN response = Reply("error", "no_members_specified", <<>>)
                 ELSE IF members = <<>>
                 THEN response = Reply("error", "no_registered_members", <<>>)
                 ELSE IF UnknownNames(present) # <<>>
                 THEN response.status = "error" /\ response.message = "unknown_members"
                 ELSE IF SharedFavorites(present) = {}
                 THEN response = Reply("warning", "no_common_favorites", <<>>)
                 ELSE response.status \in {"success", "info"}
        /\ response.status \in {"error", "warning"} => ~consulted
        /\ consulted =>
              /\ SubSeq(trace, 1, 4) = <<"present", "registry", "names", "intersect">>
              /\ present # <<>>
              /\ members # <<>>
              /\ UnknownNames(present) = <<>>
              /\ SharedFavorites(present) # {}

C1_Witness ==
    /\ RecommendReturned
    /\ response.status = "warning"
    /\ trace = <<"present", "registry", "names", "intersect">>

\* C3: for a non-empty list of registered present members (duplicates
\* allowed) the common-favorite set is the intersection of their favorite
\* sets; for one listed member it is that member's set; disjoint favorites
\* give the warning, not an error.
C3_CommonFavoritesIsIntersection ==
    LET present == request.present_members
    IN  "intersect" \in Range(trace) =>
           /\ common_fav_veg_set = SharedFavorites(present)
           /\ Len(present) = 1 => common_fav_veg_set = FavoritesOf(present[1])
           /\ SharedFavorites(present) = {} =>
                  response = Reply("warning", "no_common_favorites", <<>>)

C3_Witness ==
    LET present == request.present_members
    IN  /\ "intersect" \in Range(trace)
        /\ Len(present) = 2
        /\ present[1] # present[2]
        /\ FavoritesOf(present[1]) # FavoritesOf(present[2])
        /\ common_fav_veg_set # {}

\* C5: with a non-empty registry and non-empty present_members the outcome is
\* the unknown-members error exactly when some present name has no exact
\* (case-sensitive) match among the registered names, and it carries those
\* names in the order given.
C5_UnknownMembersReported ==
    LET present == request.present_members
    IN  (RecommendReturned /\ present # <<>> /\ members # <<>>) =>
           /\ response.message = "unknown_members" <=> UnknownNames(present) # <<>>
           /\ response.message = "unknown_members" =>
                  /\ response.status = "error"
                  /\ response.detail = UnknownNames(present)

C5_Witness ==
    /\ RecommendReturned
    /\ response.message = "unknown_members"
    /\ \E i \in 1..Len(response.detail) :
          /\ response.detail[i] \notin RegisteredNames
          /\ lower(response.detail[i]) \in {lower(n) : n \in RegisteredNames}

Normalized(S) == {normalize_ingredient_name(x) : x \in S}

\* the matching rule as set algebra over normalized names: the ingredient set
\* is non-empty, has a preferred ingredient outside the allow-list, and
\* everything not preferred is on the allow-list
Matchable(I, P, A) ==
    /\ I # {}
    /\ (I \ A) \cap P # {}
    /\ (I \ P) \subseteq A

AllowListNormalized == Normalized(common_sabzi_ingredients)

MatchableNames(preferred) ==
    {dishes_data[i].name :
        i \in {k \in 1..Len(dishes_data) :
                  Matchable(Normalized(dishes_data[k].ingredients),
                            Normalized(preferred), AllowListNormalized)}}

DishNameOf(suggestion) ==
    SubSeq(suggestion, Len(SentencePrefix) + 1, Len(suggestion) - 1)

\* C4 (as claimed): the info outcome "no match found" is returned only when
\* the common-favorite set is non-empty, its in-season subset is non-empty
\* and no dish satisfies the matching rule.
C4_NoMatchNeedsSeasonalFavorites ==
    (RecommendReturned /\ response.message = "no_match_found") =>
        /\ common_fav_veg_set # {}
        /\ available_and_preferred_veg # {}
        /\ MatchableNames(available_and_preferred_veg) = {}

SuccessReportsMatchables ==
    /\ Range(response.detail) =
           {Suggestion(n) : n \in MatchableNames(available_and_preferred_veg)}
    /\ Len(response.detail) =
           Cardinality(MatchableNames(available_and_preferred_veg))
    /\ response.message \in {"single", "loved_by_everyone"}
    /\ response.message = "single" <=>
           Cardinality(MatchableNames(available_and_preferred_veg)) = 1

\* C10 (amended): on success the reported suggestions are exactly one per
\* distinct matchable dish name; the single form is used iff there is exactly
\* one such name; the suggestions are in ascending order of the suggestion
\* sentences "Today, you can make <name>." (code-point order).
C10_SuggestionsSortedBySentence ==
    (RecommendReturned /\ response.status = "success") =>
        /\ SuccessReportsMatchables
        /\ \A i, j \in 1..Len(response.detail) :
              i < j => StrLess(response.detail[i], response.detail[j])

C10_Witness ==
    /\ RecommendReturned
    /\ response.status = "success"
    /\ response.message = "loved_by_everyone"
    /\ Len(response.detail) = 2
    /\ Len(possible_dishes) = 3

\* C10 (as claimed): on success the reported dishes are the distinct matchable
\* dish names, single form iff exactly one, listed in ascending order of the
\* dish names.
C10_DishesSortedByName ==
    (RecommendReturned /\ response.status = "success") =>
        /\ SuccessReportsMatchables
        /\ \A i, j \in 1..Len(response.detail) :
              i < j => StrLess(DishNameOf(response.detail[i]),
                               DishNameOf(response.detail[j]))

(***************************************************************************)
(* Properties of POST /api/set_preferences.                                *)
(***************************************************************************)
\* the step handles a set_preferences request that succeeded
UpsertSucceeds ==
    /\ request'.op = "set_preferences"
    /\ response'.status = "success"
    /\ <<members, request, response>>' # <<members, request, response>>

NoTwoRowsEqual(rows, Key(_)) ==
    \A i, j \in 1..Len(rows) : i # j => Key(rows[i].name) # Key(rows[j].name)

SameName(n) == n

\* C7 (amended): names are unique by exact, case-sensitive comparison: the
\* table never holds two rows with the same name; an upsert whose name equals
\* an existing row's name exactly updates that row (Updated), any other name,
\* also one differing only in letter case, is inserted as a new row (Created).
C7_NamesUniqueExactly ==
    [][ /\ NoTwoRowsEqual(members', SameName)
        /\ UpsertSucceeds =>
              IF request'.member_name \in RegisteredNames
              THEN /\ response'.message = "updated"
                   /\ Len(members') = Len(members)
                   /\ FavoritesIn(members', request'.member_name) =
                          Range(request'.favorite_vegetables)
              ELSE /\ response'.message = "added"
                   /\ members' = Append(members,
                          [name |-> request'.member_name,
                           favorite_vegetables |-> request'.favorite_vegetables])
      ]_vars

C7_Witness ==
    /\ request.op = "set_preferences"
    /\ response.message = "added"
    /\ \E i \in 1..(Len(members) - 1) :
          /\ members[i].name # request.member_name
          /\ lower(members[i].name) = lower(request.member_name)

\* C7 (as claimed): names are unique ignoring letter case: the table never
\* holds two rows whose names are equal ignoring case, and an upsert whose
\* name matches an existing row's name ignoring case updates that row.
C7_NamesUniqueIgnoringCase ==
    [][ /\ NoTwoRowsEqual(members', lower)
        /\ (UpsertSucceeds /\ lower(request'.member_name) \in
                                {lower(n) : n \in RegisteredNames}) =>
              /\ response'.message = "updated"
              /\ Len(members') = Len(members)
      ]_vars

(***************************************************************************)
(* sabzi_agent.py: main_menu, choice '1' (set a member's favorites).       *)
(***************************************************************************)
\* str.isdigit() within the universe: ASCII and Devanagari digits
IsDigitChar(c) == c \in (48..57) \cup (2406..2415)

DigitValue(c) == IF c \in 48..57 THEN c - 48 ELSE c - 2406

\* line 149: part.isdigit()
isdigit(s) == s # <<>> /\ \A i \in 1..Len(s) : IsDigitChar(s[i])

\* line 150: int(part)
RECURSIVE int(_)
int(s) ==
    IF s = <<>> THEN 0
    ELSE 10 * int(SubSeq(s, 1, Len(s) - 1)) + DigitValue(s[Len(s)])

\* lines 40-42: get_vegetable_list()
get_vegetable_list == SortedSeq(Range(all_valid_veg))

\* lines 147-159: what one part of the input adds to favs_list
PartFavorites(raw_part, available_veg) ==
    LET part == strip(raw_part)
    IN  IF isdigit(part)
        THEN IF 0 <= int(part) - 1 /\ int(part) - 1 < Len(available_veg)
             THEN {available_veg[int(part)]}
             ELSE {}
        ELSE IF part \in Range(available_veg) THEN {part} ELSE {}

\* lines 143-161: favs_list after list(set(favs_list)).  The order of a list
\* made from a set is unspecified; nothing but a print reads it, and the list
\* is kept here in ascending order.
favs_list_of(input_parts, available_veg) ==
    SortedSeq(UNION {PartFavorites(input_parts[i], available_veg) :
                        i \in 1..Len(input_parts)})

\* lines 130-179
main_menu_set(name_input, input_parts) ==
    LET member_name == strip(name_input)
        favs_list == favs_list_of(input_parts, get_vegetable_list)
        i == FirstIndexByName(user_preferences, member_name)
    IN  /\ pc = "idle"
        /\ request' = [op |-> "menu_set_preferences", member_name |-> member_name,
                       favorite_vegetables |-> input_parts,
                       present_members |-> <<>>]
        /\ IF favs_list = <<>>
           THEN /\ response' = Reply("error", "no_valid_vegetables", <<>>)
                /\ user_preferences' = user_preferences
           ELSE IF i # 0
           THEN /\ user_preferences' = [user_preferences EXCEPT
                       ![i].favorite_vegetables = favs_list]
                /\ response' = Reply("success", "updated", favs_list)
           ELSE /\ user_preferences' = Append(user_preferences,
                       [name |-> member_name, favorite_vegetables |-> favs_list])
                /\ response' = Reply("success", "added", favs_list)
        /\ DropRecommendFrame
        /\ UNCHANGED <<pc, members, normVars, matchVars, worker,
                       seasonVars, agent_response, accountVars>>

\* what the user may type as the name: "", "Mom", "mom", " Mom "
MenuNameInputs == {<<>>, Mom, mom, <<32>> \o Mom \o <<32>>}

\* what the user may type as the preferences, split at the commas
MenuPartInputs ==
    { <<<<>>>>, <<Two, One>>, <<Nine>>, <<Potato>>,
      <<<<32>> \o Spinach, Foo>>, <<Foo, Two>>, <<Potato, One>> }

MenuSetPreferences ==
    \E name_input \in MenuNameInputs, input_parts \in MenuPartInputs :
        main_menu_set(name_input, input_parts)

(***************************************************************************)
(* The two upserts.  app.py and sabzi_agent.py are separate programs with  *)
(* separate stores (app.py loads user_preferences.json and never reads     *)
(* it); a behaviour is a run of one of them from its empty registry.       *)
(***************************************************************************)
NextUpsert ==
    \/ user_preferences = <<>> /\ ApiSetPreferences
    \/ members = <<>> /\ MenuSetPreferences

SpecUpsert == Init /\ [][NextUpsert]_vars

StoredFavoritesValid(rows) ==
    \A i \in 1..Len(rows) :
        /\ rows[i].favorite_vegetables # <<>>
        /\ Range(rows[i].favorite_vegetables) \subseteq AllVegetableNames

\* the entries of a request's favorites that name no vegetable
UnknownApiEntries(favorite_vegetables) ==
    {v \in Range(favorite_vegetables) : v \notin AllVegetableNames}

\* a typed part is recognised when it is the number of a listed vegetable or
\* the name of one
PartRecognised(raw_part) ==
    \/ strip(raw_part) \in AllVegetableNames
    \/ /\ isdigit(strip(raw_part))
       /\ int(strip(raw_part)) \in 1..Cardinality(AllVegetableNames)

RecognisedVegetables(input_parts) ==
    {v \in AllVegetableNames :
        \E i \in 1..Len(input_parts) :
            \/ strip(input_parts[i]) = v
            \/ /\ isdigit(strip(input_parts[i]))
               /\ int(strip(input_parts[i])) \in 1..Cardinality(AllVegetableNames)
               /\ Cardinality({w \in AllVegetableNames : StrLess(w, v)}) + 1 =
                      int(strip(input_parts[i]))}

\* C6 (amended): every stored member's favorites are a non-empty subset of the
\* vegetable names; an api_set_preferences request with any entry that names
\* no vegetable is rejected and writes nothing; the console menu drops the
\* entries it does not recognise and stores the recognised ones (and writes
\* nothing when it recognises none).
C6_StoredFavoritesAreVegetables ==
    [][ /\ StoredFavoritesValid(members')
        /\ StoredFavoritesValid(user_preferences')
        /\ (request'.op = "set_preferences"
              /\ UnknownApiEntries(request'.favorite_vegetables) # {}) =>
              /\ response'.status = "error"
              /\ members' = members
        /\ request'.op = "menu_set_preferences" =>
              IF RecognisedVegetables(request'.favorite_vegetables) = {}
              THEN user_preferences' = user_preferences
              ELSE FavoritesIn(user_preferences', request'.member_name) =
                       RecognisedVegetables(request'.favorite_vegetables)
      ]_vars

C6_Witness ==
    /\ request.op = "set_preferences"
    /\ response.message = "invalid_vegetable"
    /\ Range(request.favorite_vegetables) \cap AllVegetableNames # {}
    /\ members # <<>>

\* C6 (as claimed): every stored member's favorites are a non-empty subset of
\* the vegetable names, and an upsert, through either front end, whose
\* favorites contain any name that is no vegetable writes nothing.
C6_InvalidUpsertWritesNothing ==
    [][ /\ StoredFavoritesValid(members')
        /\ StoredFavoritesValid(user_preferences')
        /\ (request'.op = "set_preferences"
              /\ UnknownApiEntries(request'.favorite_vegetables) # {}) =>
              members' = members
        /\ (request'.op = "menu_set_preferences"
              /\ \E i \in 1..Len(request'.favorite_vegetables) :
                    ~PartRecognised(request'.favorite_vegetables[i])) =>
              user_preferences' = user_preferences
      ]_vars

(***************************************************************************)
(* normalize_ingredient_name on every name of up to MaxNameLen characters, *)
(* applied to the name and then to its own result.                         *)
(***************************************************************************)
appUntouched == <<members, user_preferences, request, response, trace,
                  common_fav_veg_set, current_season,
                  available_and_preferred_veg, possible_dishes, worker,
                  seasonVars, agent_response, accountVars>>

InitNorm ==
    /\ pc = "normalize"
    /\ name_in \in NameInputs
    /\ name_once = <<>>
    /\ name_twice = <<>>
    /\ AppIdle
    /\ AgentIdle
    /\ MatchIdle
    /\ WorkerIdle
    /\ OthersIdle

NormalizeOnce ==
    /\ pc = "normalize"
    /\ name_once' = normalize_ingredient_name(name_in)
    /\ pc' = "normalized"
    /\ UNCHANGED <<name_in, name_twice, matchVars, appUntouched>>

NormalizeAgain ==
    /\ pc = "normalized"
    /\ name_twice' = normalize_ingredient_name(name_once)
    /\ pc' = "normalized_twice"
    /\ UNCHANGED <<name_in, name_once, matchVars, appUntouched>>

NextNorm ==
    \/ NormalizeOnce
    \/ NormalizeAgain

SpecNorm == InitNorm /\ [][NextNorm]_vars

\* C9: normalize(normalize(x)) = normalize(x); normalize(y) = normalize(x)
\* for every y that differs from x only in letter case; normalize("") = "".
C9_NormalizeIdempotentCaseInsensitive ==
    /\ pc \in {"normalized", "normalized_twice"} =>
          /\ \A y \in CaseVariants(name_in) :
                normalize_ingredient_name(y) = name_once
          /\ name_in = <<>> => name_once = <<>>
    /\ pc = "normalized_twice" => name_twice = name_once

\* "A" in the name, a "(" with no ")" after it, and a non-empty result that
\* differs from the name
C9_Witness ==
    /\ pc = "normalized_twice"
    /\ 65 \in Range(name_in)
    /\ \E i \in 1..Len(name_in) :
          name_in[i] = 40 /\ \A j \in (i+1)..Len(name_in) : name_in[j] # 41
    /\ name_once # <<>>
    /\ name_once # name_in

(***************************************************************************)
(* One pass of the dish loop of api_recommend_sabzi on every dish,         *)
(* preferred set and allow-list over a small pool of ingredient names.     *)
(***************************************************************************)
\* "Potato", "Potato (...)" and "potato (...)" normalize to one name
IngredientPool == {IngPotato, Potato, IngPotatoLower, IngOnion, Onion, IngPaneer}

PreferredPool == {Potato, IngOnion, IngPaneer}

AllowPool == {Onion, IngPotato, IngPaneer}

InitMatch ==
    /\ pc = "match"
    /\ dish_in \in SUBSET IngredientPool
    /\ preferred_in \in SUBSET PreferredPool
    /\ common_in \in SUBSET AllowPool
    /\ appended = FALSE
    /\ AppIdle
    /\ AgentIdle
    /\ NormIdle
    /\ WorkerIdle
    /\ OthersIdle

\* lines 192-205 for one dish_info
MatchDish ==
    /\ pc = "match"
    /\ appended' = dish_is_possible(dish_in, Normalized(preferred_in),
                                    Normalized(common_in))
    /\ pc' = "matched"
    /\ UNCHANGED <<dish_in, preferred_in, common_in, normVars, appUntouched>>

NextMatch == MatchDish

SpecMatch == InitMatch /\ [][NextMatch]_vars

\* C2: a dish is selected iff its ingredient set I is non-empty, (I \ A)
\* meets P and (I \ P) is within A, all in normalized form; a dish with all
\* ingredients in A is never selected, nor one with an ingredient outside
\* P and A.
C2_SelectedIffMatchable ==
    pc = "matched" =>
        LET I == Normalized(dish_in)
            P == Normalized(preferred_in)
            A == Normalized(common_in)
        IN  /\ appended <=> Matchable(I, P, A)
            /\ I \subseteq A => ~appended
            /\ ~(I \subseteq P \cup A) => ~appended

\* a selected dish with an allow-listed ingredient that is also preferred
C2_Witness ==
    /\ pc = "matched"
    /\ appended
    /\ Normalized(dish_in) \cap Normalized(common_in) \cap Normalized(preferred_in) # {}
    /\ Cardinality(dish_in) > Cardinality(Normalized(dish_in))

(***************************************************************************)
(* Two /api/set_preferences requests of one user handled concurrently (the *)
(* server runs handlers in threads, each with its own database session).   *)
(* A request is two database steps: the query of line 135, then the write  *)
(* and commit of lines 136-143.  The table has no unique constraint on     *)
(* (user_id, name) and the handler takes no lock.                          *)
(***************************************************************************)
Workers == {1, 2}

WorkerStart ==
    [pc |-> "start", member_name |-> <<>>, favorite_vegetables |-> <<>>, member |-> 0]

InitConc ==
    /\ pc = "idle"
    /\ worker = [w \in Workers |-> WorkerStart]
    /\ AppIdle
    /\ AgentIdle
    /\ NormIdle
    /\ MatchIdle
    /\ OthersIdle

concUntouched == <<user_preferences, request, response, pc, trace,
                   common_fav_veg_set, current_season,
                   available_and_preferred_veg, possible_dishes,
                   normVars, matchVars, seasonVars, agent_response, accountVars>>

\* lines 123-135: the request is validated and the member is looked up
WorkerQuery(w) ==
    \E member_name \in MemberNames \cup {<<>>}, favorite_vegetables \in FavoriteInputs :
        /\ worker[w].pc = "start"
        /\ IF \/ member_name = <<>>
              \/ favorite_vegetables = <<>>
              \/ FirstInvalidVegetable(favorite_vegetables) # 0
           THEN worker' = [worker EXCEPT ![w] =
                    [pc |-> "rejected", member_name |-> member_name,
                     favorite_vegetables |-> favorite_vegetables, member |-> 0]]
           ELSE worker' = [worker EXCEPT ![w] =
                    [pc |-> "queried", member_name |-> member_name,
                     favorite_vegetables |-> favorite_vegetables,
                     member |-> MemberQuery(members, member_name)]]
        /\ UNCHANGED <<members, concUntouched>>

\* lines 136-143: update the row found, or add a new one; commit
WorkerCommit(w) ==
    /\ worker[w].pc = "queried"
    /\ IF worker[w].member # 0
       THEN members' = [members EXCEPT ![worker[w].member].favorite_vegetables =
                            worker[w].favorite_vegetables]
       ELSE members' = Append(members,
                [name |-> worker[w].member_name,
                 favorite_vegetables |-> worker[w].favorite_vegetables])
    /\ worker' = [worker EXCEPT ![w].pc = "committed"]
    /\ UNCHANGED concUntouched

NextConc ==
    \E w \in Workers :
        \/ WorkerQuery(w)
        \/ WorkerCommit(w)

SpecConc == InitConc /\ [][NextConc]_vars

\* C8 (as claimed): two concurrent upserts of the same member name leave
\* exactly one row of that name, holding the favorites of one of the two.
C8_ConcurrentUpsertsLeaveOneRow ==
    (/\ \A w \in Workers : worker[w].pc = "committed"
     /\ worker[1].member_name = worker[2].member_name) =>
        /\ Cardinality({i \in 1..Len(members) :
                           members[i].name = worker[1].member_name}) = 1
        /\ \E w \in Workers :
              FavoritesOf(worker[1].member_name) =
                  Range(worker[w].favorite_vegetables)

(***************************************************************************)
(* sabzi_agent.py: recommend_sabzi_for_family, run on the registry, the    *)
(* present members and the season of an /api/recommend_sabzi request.      *)
(***************************************************************************)
\* the orders list(set(...)) and the iteration of a set may produce
Orderings(S) == {f \in [1..Cardinality(S) -> S] : Range(f) = S}

AgentReply(message, detail) == [message |-> message, detail |-> detail]

\* a variant of the suggestion loop without the "<vegetable> Sabzi" fallback
agent_suggestions_NoFallback(common_and_seasonal_veg, catalog) ==
    UNION { LET i == FirstIndexByName(catalog, veg_name)
            IN  IF i = 0 THEN {}
                ELSE {Suggestion(dish) : dish \in Range(catalog[i].dishes)}
            : veg_name \in common_and_seasonal_veg }

\* sabzi_agent.py lines 98-107 and set(suggestions) of line 110
agent_suggestions(common_and_seasonal_veg, catalog) ==
    UNION { LET i == FirstIndexByName(catalog, veg_name)
            IN  IF i = 0 THEN {}
                ELSE IF catalog[i].dishes # <<>>
                     THEN {Suggestion(dish) : dish \in Range(catalog[i].dishes)}
                     ELSE {Suggestion(veg_name \o SabziSuffix)}
            : veg_name \in common_and_seasonal_veg }

\* sabzi_agent.py lines 45-116: the strings the function may return for the
\* typed parts (the input line split at its commas) in the given season
recommend_sabzi_for_family(rows, present_members_input, season_now) ==
    LET all_members == [i \in 1..Len(rows) |-> rows[i].name]
        present_members ==
            [i \in 1..Len(present_members_input) |-> strip(present_members_input[i])]
        invalid == invalid_members(present_members, all_members)
        fav_sets == present_members_fav_veg(present_members, rows)
        common_set == common_favorites(fav_sets)
        seasonal_veg_names == get_seasonal_vegetables(season_now, vegetables_data)
        common_and_seasonal_veg == common_set \cap Range(seasonal_veg_names)
        suggestions == agent_suggestions(common_and_seasonal_veg, vegetables_data)
    IN  IF rows = <<>>
        THEN {AgentReply("no_registered_members", <<>>)}
        ELSE IF invalid # <<>>
        THEN {AgentReply("unknown_members", invalid)}
        ELSE IF fav_sets = <<>>
        THEN {AgentReply("favorites_not_found", <<>>)}
        ELSE IF common_set = {}
        THEN {AgentReply("no_common_favorites", <<>>)}
        ELSE IF common_and_seasonal_veg = {}
        THEN {AgentReply("none_in_season", order) : order \in Orderings(common_set)}
        ELSE IF suggestions # {}
        THEN {AgentReply(IF Cardinality(suggestions) = 1
                         THEN "single" ELSE "loved_by_everyone", order) :
                  order \in Orderings(suggestions)}
        ELSE {AgentReply("no_recommendation_found", <<>>)}

\* the registries both programs can hold: rows of distinct names, each with a
\* non-empty list of catalog vegetables
RegistryFavorites == {<<Potato>>, <<Spinach>>, <<Potato, Spinach>>}

RegistryInputs ==
    LET Distinct(names) ==
            \A i, k \in DOMAIN names : names[i] = names[k] => i = k
        NameLists ==
            {names \in UNION {[1..n -> MemberNames] : n \in 0..Cardinality(MemberNames)} :
                Distinct(names)}
    IN  UNION { {[i \in DOMAIN names |->
                     [name |-> names[i], favorite_vegetables |-> favs[i]]] :
                 favs \in [DOMAIN names -> RegistryFavorites]} :
               names \in NameLists }

\* line 57: what input().split(',') gives for the names of the request, typed
\* with or without a blank before each name; an empty line gives [""]
TypedParts(names, blank) ==
    IF names = <<>> THEN << <<>> >>
    ELSE [i \in 1..Len(names) |-> IF blank THEN <<32>> \o names[i] ELSE names[i]]

InitEquiv ==
    /\ pc = "idle"
    /\ members \in RegistryInputs
    /\ user_preferences = members
    /\ request = NoRequest
    /\ response = NoResponse
    /\ NoRecommendFrame
    /\ NormIdle
    /\ MatchIdle
    /\ WorkerIdle
    /\ OthersIdle

\* the menu's option 2 on the same present members, in the season the request
\* was answered in (any season if the request did not get that far)
AgentRecommend ==
    /\ pc = "idle"
    /\ request.op = "recommend_sabzi"
    /\ agent_response = NoAgentResponse
    /\ \E month \in 1..12, blank \in BOOLEAN :
          /\ current_season # "none" => get_current_season(month) = current_season
          /\ \E reply \in recommend_sabzi_for_family(
                              user_preferences,
                              TypedParts(request.present_members, blank),
                              get_current_season(month)) :
                agent_response' =
                    [present_members |-> request.present_members,
                     season |-> get_current_season(month),
                     message |-> reply.message,
                     detail |-> reply.detail]
    /\ UNCHANGED <<appVars, user_preferences, normVars, matchVars, worker,
                   seasonVars, accountVars>>

NextEquiv ==
    \/ agent_response = NoAgentResponse /\ ApiRecommendSabzi
    \/ AgentRecommend

SpecEquiv == InitEquiv /\ [][NextEquiv]_vars

\* both programs have answered the same request
BothAnswered ==
    /\ RecommendReturned
    /\ agent_response # NoAgentResponse
    /\ request.present_members # <<>>

\* the outcome class of a string of recommend_sabzi_for_family: that of the
\* response of api_recommend_sabzi with the same text; the string of lines
\* 95-96 has no such response and is counted with "nothing to suggest"
AgentOutcomeClass(message) ==
    IF message \in {"no_registered_members", "unknown_members", "favorites_not_found"}
    THEN "error"
    ELSE IF message = "no_common_favorites" THEN "warning"
    ELSE IF message \in {"single", "loved_by_everyone"} THEN "success"
    ELSE "info"

\* C12 (as claimed): on the same registry, present members, catalogs and
\* season both recommenders return the same outcome class and, on success,
\* the same set of dishes.
C12_SameOutcomeAndDishes ==
    BothAnswered =>
        /\ AgentOutcomeClass(agent_response.message) = response.status
        /\ response.status = "success" =>
               Range(agent_response.detail) = Range(response.detail)

\* the answers given before the season is looked at
EarlyMessages ==
    {"no_registered_members", "unknown_members", "favorites_not_found",
     "no_common_favorites"}

\* the dishes the vegetable catalog lists for the vegetables V, or
\* "<vegetable> Sabzi" for a vegetable that lists none
VegetableHints(V) ==
    UNION { IF veg.dishes # <<>>
            THEN {Suggestion(dish) : dish \in Range(veg.dishes)}
            ELSE {Suggestion(veg.name \o SabziSuffix)}
            : veg \in {v \in Range(vegetables_data) : v.name \in V} }

\* C12 (amended): for the same registry, a non-empty list of present members
\* and the same season, the two recommenders give the same answer up to the
\* common favorites (empty registry, unknown names with the same names, no
\* common favorites) and get the same in-season common vegetables; from there
\* recommend_sabzi_for_family reports "none available this season" when that
\* set is empty and otherwise suggests the dishes the vegetable catalog lists
\* for those vegetables ("<vegetable> Sabzi" where it lists none), whatever
\* the dish catalog holds.
C12_SameChecksOwnSuggestions ==
    BothAnswered =>
        IF response.message \in EarlyMessages \/ agent_response.message \in EarlyMessages
        THEN /\ agent_response.message = response.message
             /\ agent_response.detail = response.detail
        ELSE /\ agent_response.season = current_season
             /\ response.status \in {"success", "info"}
             /\ (agent_response.message = "none_in_season")
                    = (available_and_preferred_veg = {})
             /\ agent_response.message = "none_in_season" =>
                    Range(agent_response.detail) = common_fav_veg_set
             /\ available_and_preferred_veg # {} =>
                    /\ agent_response.message \in {"single", "loved_by_everyone"}
                    /\ Range(agent_response.detail) =
                           VegetableHints(available_and_preferred_veg)
                    /\ (agent_response.message = "single")
                           = (Len(agent_response.detail) = 1)

\* everyone present likes spinach only, in winter: the dish catalog has no dish
\* of spinach alone, the vegetable catalog gives "Spinach Sabzi"
C12_Witness ==
    /\ BothAnswered
    /\ response.message = "no_match_found"
    /\ available_and_preferred_veg = {Spinach}
    /\ agent_response.message = "single"
    /\ agent_response.detail = <<Suggestion(Spinach \o SabziSuffix)>>

(***************************************************************************)
(* get_seasonal_vegetables on every catalog of up to MaxCatalog vegetables *)
(* and every season get_current_season can return.                         *)
(***************************************************************************)
MaxCatalog == 2

Seasons == {"summer", "monsoon", "autumn", "winter"}

\* the values a vegetable's "seasonal" list holds in vegetables.json
SeasonTags == Seasons \cup {"year-round"}

\* a vegetable's "seasonal" list: empty, one tag, or two
SeasonalInputs == {T \in SUBSET SeasonTags : Cardinality(T) <= 2}

VegetableInputs == [name : {Potato, Spinach}, seasonal : SeasonalInputs]

CatalogInputs ==
    UNION {[1..n -> VegetableInputs] : n \in 0..MaxCatalog}

InitSeason ==
    /\ pc = "filter"
    /\ catalog_in \in CatalogInputs
    /\ season_in = "none"
    /\ seasonal_names = <<>>
    /\ AppIdle
    /\ AgentIdle
    /\ NormIdle
    /\ MatchIdle
    /\ WorkerIdle
    /\ AgentReplyIdle
    /\ AccountIdle

\* app.py lines 182-184, sabzi_agent.py lines 86-87
SeasonalNames ==
    /\ pc = "filter"
    /\ \E month \in 1..12 :
          /\ season_in' = get_current_season(month)
          /\ seasonal_names' = get_seasonal_vegetables(season_in', catalog_in)
    /\ pc' = "filtered"
    /\ UNCHANGED <<catalog_in, members, user_preferences, request, response, trace,
                   common_fav_veg_set, current_season, available_and_preferred_veg,
                   possible_dishes, normVars, matchVars, worker, agent_response,
                   accountVars>>

NextSeason == SeasonalNames

SpecSeason == InitSeason /\ [][NextSeason]_vars

\* the vegetables of the catalog tagged with the season or with "year-round"
TaggedFor(s, catalog) ==
    {i \in 1..Len(catalog) :
        s \in catalog[i].seasonal \/ "year-round" \in catalog[i].seasonal}

\* C11: for each of the four seasons and every catalog, the in-season names
\* are exactly the names of the vegetables whose seasons hold that season or
\* "year-round"; so a year-round vegetable is listed in every season and a
\* vegetable tagged with neither is left out.
C11_InSeasonIffTagged ==
    pc = "filtered" =>
        /\ season_in \in Seasons
        /\ Range(seasonal_names) =
               {catalog_in[i].name : i \in TaggedFor(season_in, catalog_in)}
        /\ \A i \in 1..Len(catalog_in) :
               "year-round" \in catalog_in[i].seasonal =>
                   catalog_in[i].name \in Range(seasonal_names)
        /\ \A n \in {Potato, Spinach} :
               (\A i \in 1..Len(catalog_in) :
                    catalog_in[i].name = n =>
                        /\ season_in \notin catalog_in[i].seasonal
                        /\ "year-round" \notin catalog_in[i].seasonal)
                   => n \notin Range(seasonal_names)

\* a year-round vegetable listed in a season it is not tagged with, next to a
\* vegetable of another season that is left out
C11_Witness ==
    /\ pc = "filtered"
    /\ season_in = "monsoon"
    /\ Len(catalog_in) = 2
    /\ catalog_in[1] = [name |-> Spinach, seasonal |-> {"winter", "autumn"}]
    /\ catalog_in[2] = [name |-> Potato, seasonal |-> {"year-round"}]
    /\ seasonal_names = <<Potato>>

(***************************************************************************)
(* app.py: the password reset by one-time code, for one account, one       *)
(* request at a time, with the clock moving between requests.              *)
(***************************************************************************)
\* timedelta(minutes=10)
OtpLifetime == 10

\* the last minute of the clock
MaxNow == 12

\* str(random.randint(100000, 999999))
Codes == {"100000", "999999"}

\* the "otp" of a request: missing (None) or a string
OtpInputs == {<<>>} \cup {<<code>> : code \in Codes}

UserEmail == "user@example.com"

Emails == {UserEmail, "other@example.com"}

\* the "new_password" of a request: missing (None) or a string
PasswordInputs == {<<>>, <<"secret1">>, <<"secret2">>}

\* generate_password_hash salts the hash at random
Salts == {"salt1", "salt2"}

generate_password_hash(password, salt) == [password |-> password, salt |-> salt]

\* the row of the account as the registration left it
RegisteredUser ==
    [email |-> UserEmail,
     password_hash |-> generate_password_hash("secret0", "salt1"),
     otp |-> <<>>,
     otp_expiry |-> <<>>]

\* User.query.filter_by(email=email).first()
UserQuery(email) == IF email = user.email THEN <<user>> ELSE <<>>

\* lines 351 and 362: "rejected", "accepted", or "TypeError" when the codes
\* compare equal and otp_expiry is None
otp_check(email, otp) ==
    IF UserQuery(email) = <<>> THEN "rejected"
    ELSE IF user.otp # otp THEN "rejected"
    ELSE IF user.otp_expiry = <<>> THEN "TypeError"
    ELSE IF user.otp_expiry[1] < now THEN "rejected"
    ELSE "accepted"

InitOtp ==
    /\ pc = "idle"
    /\ user = RegisteredUser
    /\ now = 0
    /\ mail = <<>>
    /\ otp_request = NoOtpRequest
    /\ otp_response = "none"
    /\ AppIdle
    /\ AgentIdle
    /\ NormIdle
    /\ MatchIdle
    /\ WorkerIdle
    /\ SeasonIdle
    /\ AgentReplyIdle

otpUntouched ==
    <<members, user_preferences, request, response, pc, trace, common_fav_veg_set,
      current_season, available_and_preferred_veg, possible_dishes, normVars,
      matchVars, worker, seasonVars, agent_response>>

\* time passes between two requests
Tick ==
    /\ now < MaxNow
    /\ now' = now + 1
    /\ UNCHANGED <<user, mail, otp_request, otp_response, otpUntouched>>

\* lines 331-343
forgot_password_request(email) ==
    /\ otp_request' = [op |-> "forgot_password_request", email |-> email,
                       otp |-> <<>>, new_password |-> "none"]
    /\ IF UserQuery(email) = <<>>
       THEN /\ otp_response' = "404"
            /\ UNCHANGED <<user, mail>>
       ELSE \E code \in Codes :
               /\ user' = [user EXCEPT !.otp = <<code>>,
                                       !.otp_expiry = <<now + OtpLifetime>>]
               /\ mail' = <<code>>
               /\ otp_response' = "200"
    /\ UNCHANGED <<now, otpUntouched>>

\* lines 345-353
verify_otp(email, otp) ==
    /\ otp_request' = [op |-> "verify_otp", email |-> email, otp |-> otp,
                       new_password |-> "none"]
    /\ otp_response' = CASE otp_check(email, otp) = "rejected" -> "400"
                         [] otp_check(email, otp) = "TypeError" -> "500"
                         [] OTHER -> "200"
    /\ UNCHANGED <<user, now, mail, otpUntouched>>

\* a variant that leaves the stored code and its expiry in place
reset_password_KeepsCode(email, otp, new_password) ==
    /\ otp_request' = [op |-> "reset_password", email |-> email, otp |-> otp,
                       new_password |-> IF new_password = <<>> THEN "none"
                                        ELSE new_password[1]]
    /\ IF otp_check(email, otp) = "rejected"
       THEN otp_response' = "400" /\ UNCHANGED user
       ELSE IF otp_check(email, otp) = "TypeError" \/ new_password = <<>>
       THEN otp_response' = "500" /\ UNCHANGED user
       ELSE \E salt \in Salts :
               /\ user' = [user EXCEPT !.password_hash =
                               generate_password_hash(new_password[1], salt)]
               /\ otp_response' = "200"
    /\ UNCHANGED <<now, mail, otpUntouched>>

\* lines 355-368; generate_password_hash(None) raises before anything is
\* assigned
reset_password(email, otp, new_password) ==
    /\ otp_request' = [op |-> "reset_password", email |-> email, otp |-> otp,
                       new_password |-> IF new_password = <<>> THEN "none"
                                        ELSE new_password[1]]
    /\ IF otp_check(email, otp) = "rejected"
       THEN otp_response' = "400" /\ UNCHANGED user
       ELSE IF otp_check(email, otp) = "TypeError" \/ new_password = <<>>
       THEN otp_response' = "500" /\ UNCHANGED user
       ELSE \E salt \in Salts :
               /\ user' = [user EXCEPT !.password_hash =
                               generate_password_hash(new_password[1], salt),
                                       !.otp = <<>>,
                                       !.otp_expiry = <<>>]
               /\ otp_response' = "200"
    /\ UNCHANGED <<now, mail, otpUntouched>>

ForgotPasswordRequest == \E email \in Emails : forgot_password_request(email)

VerifyOtp == \E email \in Emails, otp \in OtpInputs : verify_otp(email, otp)

ResetPassword ==
    \E email \in Emails, otp \in OtpInputs, new_password \in PasswordInputs :
        reset_password(email, otp, new_password)

NextOtp ==
    \/ Tick
    \/ ForgotPasswordRequest
    \/ VerifyOtp
    \/ ResetPassword

SpecOtp == InitOtp /\ [][NextOtp]_vars

\* a code was issued and a reset has used it up since
CodeSpent == mail # <<>> /\ user.otp = <<>>

\* C13: the password hash changes only in a reset_password call that carries
\* the code issued last, no later than its expiry; a successful reset clears
\* the stored code and expiry, so that a further reset_password before the
\* next forgot_password_request, with that code or any other, leaves the
\* password alone; the stored code is set by forgot_password_request only and
\* verify_otp changes nothing of the account.
C13_ResetOnlyWithLiveCode ==
    [][ /\ user'.password_hash # user.password_hash =>
              /\ ResetPassword
              /\ otp_response' = "200"
              /\ mail # <<>>
              /\ otp_request'.otp = mail
              /\ user.otp = mail
              /\ user.otp_expiry # <<>>
              /\ now <= user.otp_expiry[1]
        /\ (ResetPassword /\ otp_response' = "200") =>
              /\ user'.otp = <<>>
              /\ user'.otp_expiry = <<>>
        /\ (ResetPassword /\ CodeSpent) =>
              /\ user'.password_hash = user.password_hash
              /\ otp_response' # "200"
              /\ CodeSpent'
        /\ (CodeSpent /\ ~CodeSpent') => ForgotPasswordRequest
        /\ VerifyOtp => user' = user
      ]_vars

\* the code of the last email is sent again after the reset it allowed: the
\* request is refused and the password is the one that reset has set
C13_Witness ==
    /\ CodeSpent
    /\ otp_request.op = "reset_password"
    /\ otp_request.email = UserEmail
    /\ <<otp_request.new_password>> \in PasswordInputs
    /\ otp_request.otp = mail
    /\ otp_response = "400"
    /\ user.password_hash.password # RegisteredUser.password_hash.password
    /\ user.password_hash.password # otp_request.new_password

====
